---- MODULE Spec2Model ----
(***************************************************************************)
(* Model of the DNS lookup processor's resolution core:                    *)
(*   - resolver/chain.go     ChainResolver (Resolve, Reverse, Close)       *)
(*   - resolver/resolver.go  the Resolver contract and its sentinel errors *)
(*   - dnslookup_processor.go createResolverChain and the attribute-driven *)
(*     lookups (processResolveLookup, processReverseLookup)                *)
(*                                                                         *)
(* Go's (string, error) return is the record [result, err]; a nil error is *)
(* the string Nil.  A joined error (errors.Join) is the sequence of the    *)
(* errors it holds, the empty sequence being nil.                          *)
(***************************************************************************)
EXTENDS Integers, Sequences, FiniteSets, TLC

VARIABLES
    config,     \* the processor configuration read by createResolverChain
    origin,     \* "none" | "config" | "direct": who built the chain
    buildErr,   \* error returned by createResolverChain
    chain,      \* ChainResolver.resolvers: a sequence of resolver kinds
    pc,         \* position of the lookup: "new","ready","loop","done","failed"
    dir,        \* "Resolve" | "Reverse": which ChainResolver method runs
    target,     \* the hostname / ip handed to the lookup
    idx,        \* position of the range loop in resolveInSequence
    lastErr,    \* resolveInSequence's lastErr
    callLog,    \* the calls made on member resolvers by the current lookup
    ret,        \* the (string, error) returned by the lookup
    cpc,        \* position of Close: "idle","loop","done"
    cidx,       \* position of the range loop in Close
    errs,       \* Close's errs slice
    closeCount, \* per member: how many times its Close() was called
    closeFail,  \* per member: the errors its Close() returned
    closeRet,   \* the error returned by ChainResolver.Close
    closes,     \* number of ChainResolver.Close invocations
    pcfg,       \* dp.config.Resolve / dp.config.Reverse (LookupConfig)
    pMap,       \* the attribute map of the record being processed
    prevMap,    \* pMap as it was when the last lookup was entered
    resolverCalls, \* calls made on dp.resolver by the last lookup
    procErr,    \* the error returned by the last lookup
    procOp,     \* "none" | "resolve" | "reverse": the last lookup run
    lcfg,       \* dp.config.Resolve / Reverse with Enabled and Context
    processPairs, \* dp.processPairs
    ctxMaps,    \* the attribute map of each context of the record in hand
    passLog,    \* the lookups run on the record so far, with their errors
    pairErr,    \* the error returned by the last ProcessFn run
    pairsRun,   \* how many of dp.processPairs have run on the record
    ccfg,       \* the cache settings of the configuration
    hitCache,   \* CacheResolver: positive entries, least recently used first
    missCache,  \* CacheResolver: negative entries, least recently used first
    now,        \* the clock, in seconds
    last,       \* the last lookup made on the CacheResolver
    prev,       \* the lookup before it
    vcfg,       \* the configuration handed to the processor factory
    validateErr, \* what Config.Validate returned for it
    built       \* what createResolverChain returned for it

chainVars == <<config, origin, buildErr, chain, pc, dir, target, idx, lastErr, callLog, ret>>
closeVars == <<cpc, cidx, errs, closeCount, closeFail, closeRet, closes>>
procVars == <<pcfg, pMap, prevMap, resolverCalls, procErr, procOp>>
pairVars == <<lcfg, processPairs, ctxMaps, passLog, pairErr, pairsRun>>
cacheVars == <<ccfg, hitCache, missCache, now, last, prev>>
cfgVars == <<vcfg, validateErr, built>>
extVars == <<pairVars, cacheVars, cfgVars>>
vars == <<chainVars, closeVars, procVars, extVars>>

----------------------------------------------------------------------------
(* Bounds *)

MaxChain == 3        \* longest chain handed to NewChainResolver directly
MaxRetriesCfg == 1   \* largest config.MaxRetries explored
MaxCloses == 2       \* how many times Close is invoked on one chain
MaxAttrs == 2        \* longest list of source attribute names
MaxCacheSize == 1    \* largest hit_cache_size / miss_cache_size explored
MaxTTL == 2          \* largest hit_cache_ttl / miss_cache_ttl explored, seconds
MaxTime == 2         \* how far the clock runs, seconds

----------------------------------------------------------------------------
(* resolver.go: sentinel errors and the Resolver contract *)

Nil == "nil"

ErrNoResolution == "no resolution found"
ErrNotInHostFiles == "not found in host files"
ErrInvalidHostname == "invalid hostname format"
ErrInvalidIP == "invalid IP address format"
ErrNSPermanentFailure == "permanent failure in nameserver resolution"

\* errors that wrap a sentinel (fmt.Errorf("...: %w", sentinel)) and plain,
\* unclassified transient errors
WrappedNoResolution == "lookup: no resolution found"
WrappedNotInHostFiles == "hostfile: not found in host files"
ErrTimeout == "i/o timeout"
ErrConnRefused == "connection refused"

Unwrap(err) ==
    CASE err = WrappedNoResolution -> ErrNoResolution
      [] err = WrappedNotInHostFiles -> ErrNotInHostFiles
      [] OTHER -> Nil

\* errors.Is(err, sentinel)
ErrorsIs(err, sentinel) ==
    /\ err # Nil
    /\ (err = sentinel \/ Unwrap(err) = sentinel)

\* errors.Join(errs...): nil errors are dropped, nil when nothing is left
ErrorsJoin(es) == SelectSeq(es, LAMBDA e : e # Nil)

HostFile == "hostfile"
Nameserver == "nameserver"
System == "system"
Kinds == {HostFile, Nameserver, System}

Hostnames == {"example.com"}
IPs == {"93.184.216.34", "10.0.0.7"}
Names == {"example.com", "alias.example.com"}

\* the non-empty values a backend can answer with
Answers(d) == IF d = "Resolve" THEN IPs ELSE Names

\* the errors a backend of the given kind can fail with
LeafErrors(kind) ==
    {ErrNoResolution, WrappedNoResolution, ErrTimeout, ErrConnRefused}
        \cup (IF kind = HostFile THEN {ErrNotInHostFiles, WrappedNotInHostFiles} ELSE {})
        \cup (IF kind = Nameserver THEN {ErrNSPermanentFailure} ELSE {})

\* what one call r.Resolve / r.Reverse on a member can return
LeafOutcomes(kind, d) ==
    {[result |-> v, err |-> Nil] : v \in Answers(d) \cup {""}}
        \cup {[result |-> "", err |-> e] : e \in LeafErrors(kind)}

----------------------------------------------------------------------------
(* dnslookup_processor.go: createResolverChain *)

Configs ==
    [Hostfiles : {<<>>, <<"/etc/hosts">>},
     Nameservers : {<<>>, <<"8.8.8.8">>},
     EnableSystemResolver : BOOLEAN,
     MaxRetries : 0..MaxRetriesCfg]

DefaultConfig ==
    [Hostfiles |-> <<>>, Nameservers |-> <<>>, EnableSystemResolver |-> TRUE, MaxRetries |-> 0]

ErrHostfileCtor == "failed to create hostfile resolver"
ErrNameserverCtor == "failed to create nameserver resolver"
ErrNoResolverConfig == "no DNS resolver configuration available"

\* createResolverChain appending the system resolver ahead of the others
createResolverChain_SystemFirst(cfg, hfOk, nsOk) ==
    LET r1 == IF cfg.EnableSystemResolver THEN <<System>> ELSE <<>>
        r2 == IF Len(cfg.Hostfiles) > 0 THEN Append(r1, HostFile) ELSE r1
        r3 == IF Len(cfg.Nameservers) > 0 THEN Append(r2, Nameserver) ELSE r2
    IN  IF Len(cfg.Hostfiles) > 0 /\ ~hfOk
            THEN [resolvers |-> <<>>, err |-> ErrHostfileCtor]
        ELSE IF Len(cfg.Nameservers) > 0 /\ ~nsOk
            THEN [resolvers |-> <<>>, err |-> ErrNameserverCtor]
        ELSE IF Len(r3) = 0
            THEN [resolvers |-> <<>>, err |-> ErrNoResolverConfig]
        ELSE [resolvers |-> r3, err |-> Nil]

\* hfOk / nsOk: whether NewHostFileResolver / NewNameserverResolver succeed
createResolverChain(cfg, hfOk, nsOk) ==
    LET r1 == IF Len(cfg.Hostfiles) > 0 THEN <<HostFile>> ELSE <<>>
        r2 == IF Len(cfg.Nameservers) > 0 THEN Append(r1, Nameserver) ELSE r1
        r3 == IF cfg.EnableSystemResolver THEN Append(r2, System) ELSE r2
    IN  IF Len(cfg.Hostfiles) > 0 /\ ~hfOk
            THEN [resolvers |-> <<>>, err |-> ErrHostfileCtor]
        ELSE IF Len(cfg.Nameservers) > 0 /\ ~nsOk
            THEN [resolvers |-> <<>>, err |-> ErrNameserverCtor]
        ELSE IF Len(r3) = 0
            THEN [resolvers |-> <<>>, err |-> ErrNoResolverConfig]
        ELSE [resolvers |-> r3, err |-> Nil]

----------------------------------------------------------------------------
(* chain.go: resolveInSequence *)

\* IsSuccess without the NoResolution case
IsSuccess_NilOnly(err) == err = Nil

\* line 70: err == nil || errors.Is(err, ErrNoResolution)
IsSuccess(err) == err = Nil \/ ErrorsIs(err, ErrNoResolution)

\* SuccessReturn handing back the error of an earlier resolver
SuccessReturn_KeepLastErr(result, le) == [result |-> result, err |-> le]

\* line 74: return result, nil
SuccessReturn(result, le) == [result |-> result, err |-> Nil]

\* NextLastErr keeping the first error seen
NextLastErr_KeepFirst(le, err) == IF le = Nil THEN err ELSE le

\* line 77: lastErr = err
NextLastErr(le, err) == err

\* ExhaustedReturn without the host-file case
ExhaustedReturn_NoHostFileCase(le) == [result |-> "", err |-> le]

\* lines 81-86: after the loop
ExhaustedReturn(le) ==
    IF ErrorsIs(le, ErrNotInHostFiles)
        THEN [result |-> "", err |-> Nil]
        ELSE [result |-> "", err |-> le]

NoRet == [result |-> "", err |-> Nil]

AllChains == UNION {[1..n -> Kinds] : n \in 0..MaxChain}

Absent == "<absent>"

DefaultLookups ==
    [Resolve |-> [Attributes |-> <<"host.name">>, ResolvedAttribute |-> "host.ip"],
     Reverse |-> [Attributes |-> <<"client.ip">>, ResolvedAttribute |-> "client.name"]]

\* no record is being processed
InitProcIdle ==
    /\ pcfg = DefaultLookups
    /\ pMap = <<>>
    /\ prevMap = <<>>
    /\ resolverCalls = <<>>
    /\ procErr = Nil
    /\ procOp = "none"

\* no record is being run through the process pairs
InitPairsIdle ==
    /\ lcfg = <<>>
    /\ processPairs = <<>>
    /\ ctxMaps = <<>>
    /\ passLog = <<>>
    /\ pairErr = <<>>
    /\ pairsRun = 0

NoLookup == [key |-> <<>>]

\* no cache resolver is in use
InitCacheIdle ==
    /\ ccfg = <<>>
    /\ hitCache = <<>>
    /\ missCache = <<>>
    /\ now = 0
    /\ last = NoLookup
    /\ prev = NoLookup

NotValidated == "not validated"

\* no configuration is being validated
InitConfigIdle ==
    /\ vcfg = <<>>
    /\ validateErr = NotValidated
    /\ built = <<>>

InitExtIdle == InitPairsIdle /\ InitCacheIdle /\ InitConfigIdle

\* no Close has been invoked
InitClose ==
    /\ cpc = "idle"
    /\ cidx = 0
    /\ errs = <<>>
    /\ closeCount = <<>>
    /\ closeFail = <<>>
    /\ closeRet = <<>>
    /\ closes = 0

Init ==
    /\ config \in Configs
    /\ origin = "none"
    /\ buildErr = Nil
    /\ chain = <<>>
    /\ pc = "new"
    /\ dir = "Resolve"
    /\ target = ""
    /\ idx = 0
    /\ lastErr = Nil
    /\ callLog = <<>>
    /\ ret = NoRet
    /\ InitClose
    /\ InitProcIdle
    /\ InitExtIdle

\* newDNSLookupProcessor: the chain is built from the configuration
NewDNSLookupProcessor ==
    /\ pc = "new"
    /\ \E hfOk \in BOOLEAN, nsOk \in BOOLEAN :
         LET r == createResolverChain(config, hfOk, nsOk)
         IN  /\ origin' = "config"
             /\ buildErr' = r.err
             /\ chain' = r.resolvers
             /\ pc' = IF r.err = Nil THEN "ready" ELSE "failed"
    /\ UNCHANGED <<config, dir, target, idx, lastErr, callLog, ret, closeVars, procVars, extVars>>

\* NewChainResolver called directly with any list of resolvers
NewChainResolver ==
    /\ pc = "new"
    /\ \E rs \in AllChains :
         /\ chain' = rs
         /\ origin' = "direct"
         /\ pc' = "ready"
    /\ UNCHANGED <<config, buildErr, dir, target, idx, lastErr, callLog, ret, closeVars, procVars, extVars>>

\* ChainResolver.Resolve / Reverse: entry into resolveInSequence
StartLookup(d, t) ==
    /\ pc \in {"ready", "done"}
    /\ dir' = d
    /\ target' = t
    /\ idx' = 1
    /\ lastErr' = Nil
    /\ callLog' = <<>>
    /\ ret' = NoRet
    /\ pc' = "loop"
    /\ UNCHANGED <<config, origin, buildErr, chain, closeVars, procVars, extVars>>

Resolve == \E h \in Hostnames : StartLookup("Resolve", h)

Reverse == \E ip \in IPs : StartLookup("Reverse", ip)

\* one iteration of the range loop, lines 66-78
CallResolver ==
    /\ pc = "loop"
    /\ idx <= Len(chain)
    /\ \E out \in LeafOutcomes(chain[idx], dir) :
         /\ callLog' = Append(callLog, [i |-> idx, op |-> dir, arg |-> target,
                                        result |-> out.result, err |-> out.err])
         /\ IF IsSuccess(out.err)
               THEN /\ ret' = SuccessReturn(out.result, lastErr)
                    /\ pc' = "done"
                    /\ UNCHANGED <<idx, lastErr>>
               ELSE /\ lastErr' = NextLastErr(lastErr, out.err)
                    /\ idx' = idx + 1
                    /\ UNCHANGED <<ret, pc>>
    /\ UNCHANGED <<config, origin, buildErr, chain, dir, target, closeVars, procVars, extVars>>

\* the loop ran out of resolvers, lines 80-86
Exhausted ==
    /\ pc = "loop"
    /\ idx > Len(chain)
    /\ ret' = ExhaustedReturn(lastErr)
    /\ pc' = "done"
    /\ UNCHANGED <<config, origin, buildErr, chain, dir, target, idx, lastErr, callLog, closeVars, procVars, extVars>>

Next ==
    \/ NewDNSLookupProcessor
    \/ NewChainResolver
    \/ Resolve
    \/ Reverse
    \/ CallResolver
    \/ Exhausted

Spec == Init /\ [][Next]_vars

----------------------------------------------------------------------------
(* Properties of the chain lookup *)

Failed(e) == e.err # Nil /\ ~ErrorsIs(e.err, ErrNoResolution)

Last(s) == s[Len(s)]

\* the calls of the current lookup went to resolvers 1, 2, ... in this order
InOrder == \A k \in DOMAIN callLog : callLog[k].i = k

\* every member of the chain was called once, in order, and every call failed
AllFailed ==
    /\ Len(callLog) = Len(chain)
    /\ InOrder
    /\ \A k \in DOMAIN callLog : Failed(callLog[k])

\* C1: when resolvers 1..i all fail with an error other than NoResolution and
\* resolver i+1 succeeds with value v, the lookup (Resolve or Reverse) returns
\* v and no error, whatever the earlier errors were; and a lookup never gives
\* up after a failure while a later resolver is still unasked.
C1_FallbackToNextResolver ==
    pc = "done" =>
        /\ (/\ Len(callLog) >= 2
            /\ InOrder
            /\ \A k \in 1..(Len(callLog) - 1) : Failed(callLog[k])
            /\ Last(callLog).err = Nil)
               => ret = [result |-> Last(callLog).result, err |-> Nil]
        /\ (\A k \in DOMAIN callLog : Failed(callLog[k]))
               => Len(callLog) = Len(chain)

C1_Witness ==
    /\ pc = "done"
    /\ dir = "Reverse"
    /\ Len(callLog) = 3
    /\ Failed(callLog[1])
    /\ Failed(callLog[2])
    /\ callLog[1].err # callLog[2].err
    /\ callLog[3].err = Nil
    /\ callLog[3].result = "alias.example.com"
    /\ ret = [result |-> "alias.example.com", err |-> Nil]

TransientErrs == {ErrTimeout, ErrConnRefused}

CallsTo(p) == {k \in DOMAIN callLog : callLog[k].i = p}

\* C2: with a retry budget N = config.MaxRetries, a resolver that keeps failing
\* transiently is called N+1 times in one lookup before the chain moves on
\* (once when N = 0).
C2_RetryBudget ==
    (pc = "done" /\ origin = "config") =>
        \A p \in DOMAIN chain :
            (/\ CallsTo(p) # {}
             /\ \A k \in CallsTo(p) : callLog[k].err \in TransientErrs)
                => Cardinality(CallsTo(p)) = config.MaxRetries + 1

\* C3: NotInHostFiles becomes an empty success only when the chain is exactly
\* the host-file backend; in every other chain whose resolvers all fail (here:
\* every chain that holds a backend other than host-file) the lookup returns
\* the last observed error, not an empty success.
C3_OnlySoleHostFileConverts ==
    (pc = "done" /\ AllFailed /\ \E k \in DOMAIN chain : chain[k] # HostFile) =>
        /\ ret.err # Nil
        /\ ret = [result |-> "", err |-> Last(callLog).err]

\* C4: a chain of exactly the host-file resolver that fails with NotInHostFiles
\* returns an empty result and no error.
C4_SoleHostFileNotFound ==
    (/\ pc = "done"
     /\ chain = <<HostFile>>
     /\ Len(callLog) = 1
     /\ ErrorsIs(callLog[1].err, ErrNotInHostFiles))
        => ret = [result |-> "", err |-> Nil]

C4_Witness ==
    /\ pc = "done"
    /\ chain = <<HostFile>>
    /\ Len(callLog) = 1
    /\ callLog[1].err = ErrNotInHostFiles
    /\ ret = [result |-> "", err |-> Nil]

NonSpecial(e) ==
    /\ e.err # Nil
    /\ ~ErrorsIs(e.err, ErrNoResolution)
    /\ ~ErrorsIs(e.err, ErrNotInHostFiles)

\* C5: when every resolver of the chain fails with an error that is neither
\* NoResolution nor NotInHostFiles, the lookup returns an empty result and
\* exactly the error of the last resolver of the chain.
C5_LastErrorVerbatim ==
    (/\ pc = "done"
     /\ Len(chain) >= 1
     /\ \A k \in DOMAIN callLog : NonSpecial(callLog[k]))
        => /\ Len(callLog) = Len(chain)
           /\ Last(callLog).i = Len(chain)
           /\ ret = [result |-> "", err |-> Last(callLog).err]

C5_Witness ==
    /\ pc = "done"
    /\ Len(chain) = 3
    /\ Len(callLog) = 3
    /\ \A k \in DOMAIN callLog : NonSpecial(callLog[k])
    /\ callLog[1].err = ErrTimeout
    /\ callLog[2].err = ErrNSPermanentFailure
    /\ callLog[3].err = ErrConnRefused
    /\ ret = [result |-> "", err |-> ErrConnRefused]

\* C6: a NoResolution answer ends the lookup: it is the last call of the
\* lookup, and the lookup returns an empty result and no error.
C6_NoResolutionStops ==
    \A k \in DOMAIN callLog :
        ErrorsIs(callLog[k].err, ErrNoResolution)
            => /\ k = Len(callLog)
               /\ pc = "done"
               /\ ret = [result |-> "", err |-> Nil]

C6_Witness ==
    /\ pc = "done"
    /\ Len(chain) = 3
    /\ Len(callLog) = 2
    /\ Failed(callLog[1])
    /\ callLog[2].err = ErrNoResolution
    /\ ret = [result |-> "", err |-> Nil]

Enabled(cfg, kind) ==
    CASE kind = HostFile -> cfg.Hostfiles # <<>>
      [] kind = Nameserver -> cfg.Nameservers # <<>>
      [] kind = System -> cfg.EnableSystemResolver

\* C7: within one lookup the resolvers are called one after another in chain
\* order, resolver i+1 only after resolver i failed and never after a success;
\* a chain built from the configuration is host-file, nameserver, system
\* resolver in this order, holding exactly the enabled backends.
C7_SequentialConfiguredOrder ==
    /\ InOrder
    /\ \A k \in DOMAIN callLog : k < Len(callLog) => Failed(callLog[k])
    /\ (pc = "loop" => idx = Len(callLog) + 1)
    /\ (origin = "config" /\ buildErr = Nil) =>
           chain = SelectSeq(<<HostFile, Nameserver, System>>,
                             LAMBDA kind : Enabled(config, kind))

C7_Witness ==
    /\ origin = "config"
    /\ chain = <<HostFile, Nameserver, System>>
    /\ pc = "done"
    /\ Len(callLog) = 3
    /\ callLog[3].err = Nil
    /\ callLog[3].result # ""

----------------------------------------------------------------------------
(* chain.go: Close *)

CloseErrors == {"close hostfile: bad file descriptor", "close: connection reset"}

\* what one member's Close() can return
CloseOutcomes == {Nil} \cup CloseErrors

\* lines 53-55: if err := r.Close(); err != nil { errs = append(errs, err) }
CollectErr(es, err) == IF err # Nil THEN Append(es, err) ELSE es

\* CloseNext leaving the loop at the first member that fails to close
CloseNext_StopOnError(i, err) == IF err # Nil THEN Len(chain) + 1 ELSE i + 1

\* line 52: the range loop goes on to the next member whatever Close returned
CloseNext(i, err) == i + 1

\* a chain resolver exists and nothing has been closed
InitChainBuilt ==
    /\ config = DefaultConfig
    /\ origin = "direct"
    /\ buildErr = Nil
    /\ chain \in AllChains
    /\ pc = "ready"
    /\ dir = "Resolve"
    /\ target = ""
    /\ idx = 0
    /\ lastErr = Nil
    /\ callLog = <<>>
    /\ ret = NoRet
    /\ cpc = "idle"
    /\ cidx = 0
    /\ errs = <<>>
    /\ closeCount = [i \in DOMAIN chain |-> 0]
    /\ closeFail = [i \in DOMAIN chain |-> Nil]
    /\ closeRet = <<>>
    /\ closes = 0
    /\ InitProcIdle
    /\ InitExtIdle

\* ChainResolver.Close is entered, line 51
Close ==
    /\ cpc \in {"idle", "done"}
    /\ closes < MaxCloses
    /\ closes' = closes + 1
    /\ cidx' = 1
    /\ errs' = <<>>
    /\ closeFail' = [i \in DOMAIN chain |-> Nil]
    /\ closeRet' = <<>>
    /\ cpc' = "loop"
    /\ UNCHANGED <<chainVars, procVars, extVars, closeCount>>

\* one iteration of the range loop, lines 52-56
CloseMember ==
    /\ cpc = "loop"
    /\ cidx <= Len(chain)
    /\ \E e \in CloseOutcomes :
         /\ closeCount' = [closeCount EXCEPT ![cidx] = @ + 1]
         /\ closeFail' = [closeFail EXCEPT ![cidx] = e]
         /\ errs' = CollectErr(errs, e)
         /\ cidx' = CloseNext(cidx, e)
    /\ UNCHANGED <<chainVars, procVars, extVars, cpc, closeRet, closes>>

\* line 57: return errors.Join(errs...)
CloseReturn ==
    /\ cpc = "loop"
    /\ cidx > Len(chain)
    /\ closeRet' = ErrorsJoin(errs)
    /\ cpc' = "done"
    /\ UNCHANGED <<chainVars, procVars, extVars, cidx, errs, closeCount, closeFail, closes>>

NextClose ==
    \/ Close
    \/ CloseMember
    \/ CloseReturn

SpecClose == InitChainBuilt /\ [][NextClose]_vars

\* the errors of the members whose Close() failed, in member order
FailedCloses ==
    SelectSeq([i \in DOMAIN chain |-> closeFail[i]], LAMBDA e : e # Nil)

\* C8: every Close of the chain calls Close on each member exactly once, goes
\* on after a member failed to close, and returns the join of exactly the
\* errors of the members that failed (nil when none failed).
C8_CloseAllJoinErrors ==
    /\ \A i \in DOMAIN chain : closeCount[i] \in {closes - 1, closes}
    /\ cpc = "done" =>
          /\ \A i \in DOMAIN chain : closeCount[i] = closes
          /\ closeRet = FailedCloses
          /\ (closeRet = <<>>) = (\A i \in DOMAIN chain : closeFail[i] = Nil)

C8_Witness ==
    /\ cpc = "done"
    /\ Len(chain) = 3
    /\ closes = 1
    /\ closeFail[1] = Nil
    /\ closeFail[2] = "close: connection reset"
    /\ closeFail[3] = Nil
    /\ closeCount = <<1, 1, 1>>
    /\ closeRet = <<"close: connection reset">>

----------------------------------------------------------------------------
(* dnslookup_processor.go: the attribute-driven lookups *)

AttrNames == {"host.name", "client.ip", "host.ip"}
ResolveSources == {"host.name", "client.ip"}
ReverseSources == {"client.ip", "host.ip"}

AttrValues == {"example.com", "Example.COM.", "not a valid host!!", "93.184.216.34"}

\* resolver.ParseHostname: the normalised hostname, or ErrInvalidHostname
ParseHostname(v) ==
    CASE v \in Names -> [result |-> v, err |-> Nil]
      [] v = "Example.COM." -> [result |-> "example.com", err |-> Nil]
      [] OTHER -> [result |-> "", err |-> ErrInvalidHostname]

\* resolver.ParseIP: the textual IP, or ErrInvalidIP
ParseIP(v) ==
    CASE v \in IPs -> [result |-> v, err |-> Nil]
      [] OTHER -> [result |-> "", err |-> ErrInvalidIP]

\* the validateFn handed to targetStrFromAttributes by each direction
Validate(d, v) == IF d = "Resolve" THEN ParseHostname(v) ELSE ParseIP(v)

\* pcommon.Map.PutStr
PutStr(m, k, v) == [m EXCEPT ![k] = v]

\* scanAttributes walking the list from its end
RECURSIVE scanAttributes_Backwards(_, _, _, _, _)
scanAttributes_Backwards(attributes, m, d, k, le) ==
    IF k > Len(attributes)
        THEN [result |-> "", err |-> le]
    ELSE IF m[attributes[Len(attributes) + 1 - k]] # Absent
        THEN LET v == Validate(d, m[attributes[Len(attributes) + 1 - k]])
             IN  IF v.err # Nil
                     THEN scanAttributes_Backwards(attributes, m, d, k + 1, v.err)
                     ELSE [result |-> v.result, err |-> Nil]
    ELSE scanAttributes_Backwards(attributes, m, d, k + 1, le)

\* the range loop of targetStrFromAttributes from position k on, lines 210-220
RECURSIVE scanAttributes(_, _, _, _, _)
scanAttributes(attributes, m, d, k, le) ==
    IF k > Len(attributes)
        THEN [result |-> "", err |-> le]
    ELSE IF m[attributes[k]] # Absent
        THEN LET v == Validate(d, m[attributes[k]])
             IN  IF v.err # Nil
                     THEN scanAttributes(attributes, m, d, k + 1, v.err)
                     ELSE [result |-> v.result, err |-> Nil]
    ELSE scanAttributes(attributes, m, d, k + 1, le)

targetStrFromAttributes(attributes, m, d) == scanAttributes(attributes, m, d, 1, Nil)

\* what dp.resolver.Resolve / Reverse can return
ResolverOutcomes(d) ==
    {[result |-> v, err |-> Nil] : v \in Answers(d) \cup {""}}
        \cup {[result |-> "", err |-> e] :
                 e \in {ErrNoResolution, WrappedNoResolution, ErrTimeout, ErrNSPermanentFailure}}

\* processResolveLookup writing the answer without the len(ip) > 0 test
processResolveLookup_WriteEmpty(cfg, m, out) ==
    LET t == targetStrFromAttributes(cfg.Resolve.Attributes, m, "Resolve")
        call == <<[op |-> "Resolve", arg |-> t.result,
                   result |-> out.result, err |-> out.err]>>
    IN  IF t.err # Nil
            THEN IF ErrorsIs(t.err, ErrInvalidHostname)
                     THEN [pMap |-> m, err |-> Nil, calls |-> <<>>]
                     ELSE [pMap |-> m, err |-> t.err, calls |-> <<>>]
        ELSE IF out.err = Nil
            THEN [pMap |-> PutStr(m, cfg.Resolve.ResolvedAttribute, out.result),
                  err |-> Nil, calls |-> call]
        ELSE IF ErrorsIs(out.err, ErrNoResolution)
            THEN [pMap |-> m, err |-> Nil, calls |-> call]
        ELSE [pMap |-> m, err |-> out.err, calls |-> call]

\* processResolveLookup returning the validation error instead of skipping
processResolveLookup_PropagateInvalid(cfg, m, out) ==
    LET t == targetStrFromAttributes(cfg.Resolve.Attributes, m, "Resolve")
        call == <<[op |-> "Resolve", arg |-> t.result,
                   result |-> out.result, err |-> out.err]>>
    IN  IF t.err # Nil
            THEN [pMap |-> m, err |-> t.err, calls |-> <<>>]
        ELSE IF out.err = Nil
            THEN [pMap |-> IF out.result # ""
                              THEN PutStr(m, cfg.Resolve.ResolvedAttribute, out.result)
                              ELSE m,
                  err |-> Nil, calls |-> call]
        ELSE IF ErrorsIs(out.err, ErrNoResolution)
            THEN [pMap |-> m, err |-> Nil, calls |-> call]
        ELSE [pMap |-> m, err |-> out.err, calls |-> call]

\* processResolveLookup, lines 154-177; out is what dp.resolver.Resolve answers
processResolveLookup(cfg, m, out) ==
    LET t == targetStrFromAttributes(cfg.Resolve.Attributes, m, "Resolve")
        call == <<[op |-> "Resolve", arg |-> t.result,
                   result |-> out.result, err |-> out.err]>>
    IN  IF t.err # Nil
            THEN IF ErrorsIs(t.err, ErrInvalidHostname)
                     THEN [pMap |-> m, err |-> Nil, calls |-> <<>>]
                     ELSE [pMap |-> m, err |-> t.err, calls |-> <<>>]
        ELSE IF out.err = Nil
            THEN [pMap |-> IF out.result # ""
                              THEN PutStr(m, cfg.Resolve.ResolvedAttribute, out.result)
                              ELSE m,
                  err |-> Nil, calls |-> call]
        ELSE IF ErrorsIs(out.err, ErrNoResolution)
            THEN [pMap |-> m, err |-> Nil, calls |-> call]
        ELSE [pMap |-> m, err |-> out.err, calls |-> call]

\* processReverseLookup leaving an existing destination attribute alone
processReverseLookup_KeepExisting(cfg, m, out) ==
    LET t == targetStrFromAttributes(cfg.Reverse.Attributes, m, "Reverse")
        call == <<[op |-> "Reverse", arg |-> t.result,
                   result |-> out.result, err |-> out.err]>>
    IN  IF t.err # Nil
            THEN IF ErrorsIs(t.err, ErrInvalidIP)
                     THEN [pMap |-> m, err |-> Nil, calls |-> <<>>]
                     ELSE [pMap |-> m, err |-> t.err, calls |-> <<>>]
        ELSE IF out.err = Nil
            THEN [pMap |-> IF out.result # "" /\ m[cfg.Reverse.ResolvedAttribute] = Absent
                              THEN PutStr(m, cfg.Reverse.ResolvedAttribute, out.result)
                              ELSE m,
                  err |-> Nil, calls |-> call]
        ELSE IF ErrorsIs(out.err, ErrNoResolution)
            THEN [pMap |-> m, err |-> Nil, calls |-> call]
        ELSE [pMap |-> m, err |-> out.err, calls |-> call]

\* processReverseLookup returning nil whatever the resolver failed with
processReverseLookup_SwallowError(cfg, m, out) ==
    LET t == targetStrFromAttributes(cfg.Reverse.Attributes, m, "Reverse")
        call == <<[op |-> "Reverse", arg |-> t.result,
                   result |-> out.result, err |-> out.err]>>
    IN  IF t.err # Nil
            THEN IF ErrorsIs(t.err, ErrInvalidIP)
                     THEN [pMap |-> m, err |-> Nil, calls |-> <<>>]
                     ELSE [pMap |-> m, err |-> t.err, calls |-> <<>>]
        ELSE IF out.err = Nil
            THEN [pMap |-> IF out.result # ""
                              THEN PutStr(m, cfg.Reverse.ResolvedAttribute, out.result)
                              ELSE m,
                  err |-> Nil, calls |-> call]
        ELSE [pMap |-> m, err |-> Nil, calls |-> call]

\* processReverseLookup, lines 180-203; out is what dp.resolver.Reverse answers
processReverseLookup(cfg, m, out) ==
    LET t == targetStrFromAttributes(cfg.Reverse.Attributes, m, "Reverse")
        call == <<[op |-> "Reverse", arg |-> t.result,
                   result |-> out.result, err |-> out.err]>>
    IN  IF t.err # Nil
            THEN IF ErrorsIs(t.err, ErrInvalidIP)
                     THEN [pMap |-> m, err |-> Nil, calls |-> <<>>]
                     ELSE [pMap |-> m, err |-> t.err, calls |-> <<>>]
        ELSE IF out.err = Nil
            THEN [pMap |-> IF out.result # ""
                              THEN PutStr(m, cfg.Reverse.ResolvedAttribute, out.result)
                              ELSE m,
                  err |-> Nil, calls |-> call]
        ELSE IF ErrorsIs(out.err, ErrNoResolution)
            THEN [pMap |-> m, err |-> Nil, calls |-> call]
        ELSE [pMap |-> m, err |-> out.err, calls |-> call]

AttrLists(S) == UNION {[1..n -> S] : n \in 1..MaxAttrs}

LookupConfigs ==
    [Resolve : [Attributes : AttrLists(ResolveSources), ResolvedAttribute : {"host.ip"}],
     Reverse : [Attributes : AttrLists(ReverseSources), ResolvedAttribute : {"host.name"}]]

\* a processor over the default configuration, no chain lookup in flight
InitChainIdle ==
    /\ config = DefaultConfig
    /\ origin = "config"
    /\ buildErr = Nil
    /\ chain = <<System>>
    /\ pc = "ready"
    /\ dir = "Resolve"
    /\ target = ""
    /\ idx = 0
    /\ lastErr = Nil
    /\ callLog = <<>>
    /\ ret = NoRet

\* a processor with its configuration and a record about to be processed
InitProc ==
    /\ InitChainIdle
    /\ InitClose
    /\ pcfg \in LookupConfigs
    /\ pMap \in [AttrNames -> AttrValues \cup {Absent}]
    /\ prevMap = pMap
    /\ resolverCalls = <<>>
    /\ procErr = Nil
    /\ procOp = "none"
    /\ InitExtIdle

ProcessResolveLookup ==
    /\ \E out \in ResolverOutcomes("Resolve") :
         LET r == processResolveLookup(pcfg, pMap, out)
         IN  /\ pMap' = r.pMap
             /\ procErr' = r.err
             /\ resolverCalls' = r.calls
    /\ prevMap' = pMap
    /\ procOp' = "resolve"
    /\ UNCHANGED <<chainVars, closeVars, extVars, pcfg>>

ProcessReverseLookup ==
    /\ \E out \in ResolverOutcomes("Reverse") :
         LET r == processReverseLookup(pcfg, pMap, out)
         IN  /\ pMap' = r.pMap
             /\ procErr' = r.err
             /\ resolverCalls' = r.calls
    /\ prevMap' = pMap
    /\ procOp' = "reverse"
    /\ UNCHANGED <<chainVars, closeVars, extVars, pcfg>>

NextProc ==
    \/ ProcessResolveLookup
    \/ ProcessReverseLookup

SpecProc == InitProc /\ [][NextProc]_vars

\* the source attributes of the last lookup's direction
SourceAttrs ==
    IF procOp = "resolve" THEN pcfg.Resolve.Attributes ELSE pcfg.Reverse.Attributes

Present(m, attributes) == {k \in DOMAIN attributes : m[attributes[k]] # Absent}

LastDir == IF procOp = "resolve" THEN "Resolve" ELSE "Reverse"

\* C9: when none of the configured source attributes is on the record the
\* lookup is skipped: the resolver is not invoked, nothing is written and no
\* error is returned.
C9_NoSourceAttributeSkips ==
    (procOp # "none" /\ Present(prevMap, SourceAttrs) = {}) =>
        /\ resolverCalls = <<>>
        /\ pMap = prevMap
        /\ procErr = Nil

\* C10: when at least one source attribute is on the record and every one that
\* is there fails validation (hostname syntax for resolve, IP syntax for
\* reverse), the lookup returns no error, the resolver is not invoked and the
\* record is unchanged.
C10_InvalidTargetSkips ==
    (/\ procOp # "none"
     /\ Present(prevMap, SourceAttrs) # {}
     /\ \A k \in Present(prevMap, SourceAttrs) :
            Validate(LastDir, prevMap[SourceAttrs[k]]).err # Nil)
        => /\ procErr = Nil
           /\ resolverCalls = <<>>
           /\ pMap = prevMap

C10_Witness ==
    /\ procOp = "resolve"
    /\ pcfg.Resolve.Attributes = <<"host.name">>
    /\ prevMap["host.name"] = "not a valid host!!"
    /\ procErr = Nil
    /\ resolverCalls = <<>>
    /\ pMap = prevMap

\* positions of the source attributes that are on the record and valid
ValidIdx ==
    {k \in Present(prevMap, SourceAttrs) :
        Validate(LastDir, prevMap[SourceAttrs[k]]).err = Nil}

FirstValidIdx == CHOOSE k \in ValidIdx : \A j \in ValidIdx : k <= j

\* the validated value of the first source attribute that is present and valid
FirstValid == Validate(LastDir, prevMap[SourceAttrs[FirstValidIdx]]).result

DestAttr ==
    IF procOp = "resolve" THEN pcfg.Resolve.ResolvedAttribute
                          ELSE pcfg.Reverse.ResolvedAttribute

\* the last lookup found a valid target and handed it to the resolver
Looked == procOp # "none" /\ ValidIdx # {} /\ Len(resolverCalls) = 1

\* C11: when a valid target is found and the resolver succeeds with a
\* non-empty result, that result is written to the destination attribute,
\* replacing any value already there, and the lookup returns no error.
C11_ResultWritten ==
    (Looked /\ resolverCalls[1].err = Nil /\ resolverCalls[1].result # "") =>
        /\ pMap = [prevMap EXCEPT ![DestAttr] = resolverCalls[1].result]
        /\ procErr = Nil

C11_Witness ==
    /\ procOp = "reverse"
    /\ Looked
    /\ prevMap["client.ip"] = "93.184.216.34"
    /\ prevMap["host.name"] = "not a valid host!!"
    /\ resolverCalls[1].arg = "93.184.216.34"
    /\ resolverCalls[1].err = Nil
    /\ resolverCalls[1].result = "alias.example.com"
    /\ pMap["host.name"] = "alias.example.com"
    /\ procErr = Nil

\* C12: when the resolver answers NoResolution, or succeeds with an empty
\* result, for a valid target, the lookup leaves the record as it was (the
\* destination attribute is neither created nor overwritten) and returns no
\* error.
C12_NoResolutionWritesNothing ==
    (/\ Looked
     /\ \/ ErrorsIs(resolverCalls[1].err, ErrNoResolution)
        \/ (resolverCalls[1].err = Nil /\ resolverCalls[1].result = ""))
        => /\ pMap = prevMap
           /\ procErr = Nil

C12_Witness ==
    /\ procOp = "resolve"
    /\ Looked
    /\ resolverCalls[1].arg = "example.com"
    /\ resolverCalls[1].err = ErrNoResolution
    /\ prevMap["host.ip"] = Absent
    /\ pMap["host.ip"] = Absent
    /\ procErr = Nil

C12_WitnessEmpty ==
    /\ procOp = "resolve"
    /\ Looked
    /\ resolverCalls[1].err = Nil
    /\ resolverCalls[1].result = ""
    /\ pMap = prevMap

\* C18: the source attributes are scanned in list order and the lookup's
\* target is the validated value of the first attribute that is present and
\* valid: absent or invalid attributes earlier in the list do not hide it and
\* a later valid attribute is never preferred to it.
C18_FirstValidAttribute ==
    (procOp # "none" /\ ValidIdx # {}) =>
        /\ Len(resolverCalls) = 1
        /\ resolverCalls[1].arg = FirstValid

C18_Witness ==
    /\ procOp = "reverse"
    /\ pcfg.Reverse.Attributes = <<"host.ip", "client.ip">>
    /\ prevMap["host.ip"] = "10.0.0.7"
    /\ prevMap["client.ip"] = "93.184.216.34"
    /\ Len(resolverCalls) = 1
    /\ resolverCalls[1].arg = "10.0.0.7"

C18_WitnessSkip ==
    /\ procOp = "resolve"
    /\ pcfg.Resolve.Attributes = <<"client.ip", "host.name">>
    /\ prevMap["client.ip"] = "not a valid host!!"
    /\ prevMap["host.name"] = "Example.COM."
    /\ Len(resolverCalls) = 1
    /\ resolverCalls[1].arg = "example.com"

\* C19: when the resolver fails for a valid target with an error other than
\* NoResolution, the lookup returns that error and leaves every attribute of
\* the record unchanged.
C19_FailurePropagates ==
    (/\ Looked
     /\ resolverCalls[1].err # Nil
     /\ ~ErrorsIs(resolverCalls[1].err, ErrNoResolution))
        => /\ procErr = resolverCalls[1].err
           /\ pMap = prevMap

C19_Witness ==
    /\ procOp = "reverse"
    /\ Looked
    /\ resolverCalls[1].err = ErrNSPermanentFailure
    /\ procErr = ErrNSPermanentFailure
    /\ pMap = prevMap

----------------------------------------------------------------------------
(* dnslookup_processor.go: createProcessPairs and processDNSLookup *)

Contexts == {"resource", "record"}

PairLookupConfigs ==
    [Resolve : [Enabled : BOOLEAN, Context : Contexts,
                Attributes : {<<"host.name">>}, ResolvedAttribute : {"host.ip"}],
     Reverse : [Enabled : BOOLEAN, Context : Contexts,
                Attributes : {<<"client.ip">>}, ResolvedAttribute : {"host.name"}]]

\* createProcessPairs binding the combined pair whenever both directions are
\* enabled, whatever their contexts
createProcessPairs_IgnoreContext(cfg) ==
    IF cfg.Resolve.Enabled /\ cfg.Reverse.Enabled
        THEN <<[ContextID |-> cfg.Resolve.Context, ProcessFn |-> "processDNSLookup"]>>
        ELSE (IF cfg.Resolve.Enabled
                  THEN <<[ContextID |-> cfg.Resolve.Context,
                          ProcessFn |-> "processResolveLookup"]>>
                  ELSE <<>>)
             \o (IF cfg.Reverse.Enabled
                  THEN <<[ContextID |-> cfg.Reverse.Context,
                          ProcessFn |-> "processReverseLookup"]>>
                  ELSE <<>>)

\* createProcessPairs, lines 115-143; ProcessFn is the name of the method bound
createProcessPairs(cfg) ==
    IF cfg.Resolve.Enabled /\ cfg.Reverse.Enabled
          /\ cfg.Resolve.Context = cfg.Reverse.Context
        THEN <<[ContextID |-> cfg.Resolve.Context, ProcessFn |-> "processDNSLookup"]>>
        ELSE (IF cfg.Resolve.Enabled
                  THEN <<[ContextID |-> cfg.Resolve.Context,
                          ProcessFn |-> "processResolveLookup"]>>
                  ELSE <<>>)
             \o (IF cfg.Reverse.Enabled
                  THEN <<[ContextID |-> cfg.Reverse.Context,
                          ProcessFn |-> "processReverseLookup"]>>
                  ELSE <<>>)

\* processDNSLookup giving up after a failed resolve pass
processDNSLookup_ShortCircuit(cfg, m, o1, o2) ==
    LET r1 == processResolveLookup(cfg, m, o1)
        r2 == processReverseLookup(cfg, r1.pMap, o2)
    IN  IF r1.err # Nil
            THEN [pMap |-> r1.pMap, err |-> <<r1.err>>,
                  passes |-> <<[fn |-> "processResolveLookup", err |-> r1.err]>>]
            ELSE [pMap |-> r2.pMap, err |-> ErrorsJoin(<<r1.err, r2.err>>),
                  passes |-> <<[fn |-> "processResolveLookup", err |-> r1.err],
                               [fn |-> "processReverseLookup", err |-> r2.err]>>]

\* processDNSLookup, lines 146-151; o1, o2 are dp.resolver's answers to the
\* resolve and to the reverse pass
processDNSLookup(cfg, m, o1, o2) ==
    LET r1 == processResolveLookup(cfg, m, o1)
        r2 == processReverseLookup(cfg, r1.pMap, o2)
    IN  [pMap |-> r2.pMap, err |-> ErrorsJoin(<<r1.err, r2.err>>),
         passes |-> <<[fn |-> "processResolveLookup", err |-> r1.err],
                      [fn |-> "processReverseLookup", err |-> r2.err]>>]

\* ProcessPair.ProcessFn applied to an attribute map
runProcessFn(fn, cfg, m, o1, o2) ==
    CASE fn = "processDNSLookup" -> processDNSLookup(cfg, m, o1, o2)
      [] fn = "processResolveLookup" ->
            LET r == processResolveLookup(cfg, m, o1)
            IN  [pMap |-> r.pMap, err |-> ErrorsJoin(<<r.err>>),
                 passes |-> <<[fn |-> fn, err |-> r.err]>>]
      [] fn = "processReverseLookup" ->
            LET r == processReverseLookup(cfg, m, o2)
            IN  [pMap |-> r.pMap, err |-> ErrorsJoin(<<r.err>>),
                 passes |-> <<[fn |-> fn, err |-> r.err]>>]

PairMaps ==
    {m \in [AttrNames -> AttrValues \cup {Absent}] :
        /\ m["host.name"] \in {"example.com", "not a valid host!!", Absent}
        /\ m["client.ip"] \in {"93.184.216.34", Absent}
        /\ m["host.ip"] = Absent}

\* a processor built by newDNSLookupProcessor and a record about to be run
\* through its process pairs
InitPairs ==
    /\ InitChainIdle
    /\ InitClose
    /\ InitProcIdle
    /\ InitCacheIdle
    /\ InitConfigIdle
    /\ lcfg \in PairLookupConfigs
    /\ processPairs = createProcessPairs(lcfg)
    /\ ctxMaps \in [Contexts -> PairMaps]
    /\ passLog = <<>>
    /\ pairErr = <<>>
    /\ pairsRun = 0

\* the next process pair runs on the attribute map of its context
RunPair ==
    /\ pairsRun < Len(processPairs)
    /\ LET pair == processPairs[pairsRun + 1]
       IN  \E o1 \in ResolverOutcomes("Resolve"), o2 \in ResolverOutcomes("Reverse") :
             LET r == runProcessFn(pair.ProcessFn, lcfg, ctxMaps[pair.ContextID], o1, o2)
             IN  /\ ctxMaps' = [ctxMaps EXCEPT ![pair.ContextID] = r.pMap]
                 /\ passLog' = passLog \o
                       [k \in DOMAIN r.passes |->
                           [pair |-> pairsRun + 1, ctx |-> pair.ContextID,
                            fn |-> r.passes[k].fn, err |-> r.passes[k].err]]
                 /\ pairErr' = r.err
    /\ pairsRun' = pairsRun + 1
    /\ UNCHANGED <<chainVars, closeVars, procVars, cacheVars, cfgVars, lcfg, processPairs>>

NextPairs == RunPair

SpecPairs == InitPairs /\ [][NextPairs]_vars

BothSameContext ==
    /\ lcfg.Resolve.Enabled
    /\ lcfg.Reverse.Enabled
    /\ lcfg.Resolve.Context = lcfg.Reverse.Context

\* C13: with both directions enabled for the same context each attribute map
\* gets both passes, the reverse pass whether or not the resolve pass failed,
\* and the error returned is the join of the two passes' errors: nil exactly
\* when both passes returned nil.
C13_BothPassesJoined ==
    BothSameContext =>
        /\ Len(processPairs) = 1
        /\ processPairs[1].ContextID = lcfg.Resolve.Context
        /\ pairsRun = 1 =>
              /\ Len(passLog) = 2
              /\ passLog[1].fn = "processResolveLookup"
              /\ passLog[2].fn = "processReverseLookup"
              /\ passLog[1].ctx = lcfg.Resolve.Context
              /\ passLog[2].ctx = lcfg.Resolve.Context
              /\ pairErr = SelectSeq(<<passLog[1].err, passLog[2].err>>,
                                     LAMBDA e : e # Nil)
              /\ (pairErr = <<>>) = (passLog[1].err = Nil /\ passLog[2].err = Nil)

C13_Witness ==
    /\ BothSameContext
    /\ pairsRun = 1
    /\ Len(passLog) = 2
    /\ passLog[1].err = ErrTimeout
    /\ passLog[2].fn = "processReverseLookup"
    /\ passLog[2].err = ErrNSPermanentFailure
    /\ pairErr = <<ErrTimeout, ErrNSPermanentFailure>>

----------------------------------------------------------------------------
(* The cache resolver built by createResolverChain, lines 96-110 *)

CacheConfigs ==
    [HitCacheSize : 0..MaxCacheSize, HitCacheTTL : 1..MaxTTL,
     MissCacheSize : 0..MaxCacheSize, MissCacheTTL : 1..MaxTTL]

\* UseCache asking for both caches
UseCache_Both(cfg) == cfg.HitCacheSize > 0 /\ cfg.MissCacheSize > 0

\* line 96: the chain is wrapped when either cache has a size
UseCache(cfg) == cfg.HitCacheSize > 0 \/ cfg.MissCacheSize > 0

\* cacheParams handing the miss TTL to the hit cache and the hit TTL to the
\* miss cache
cacheParams_SwapTTL(cfg) ==
    [hitSize |-> cfg.HitCacheSize, hitTTL |-> cfg.MissCacheTTL,
     missSize |-> cfg.MissCacheSize, missTTL |-> cfg.HitCacheTTL]

\* cacheParams handing each cache the other one's size
cacheParams_SwapSizes(cfg) ==
    [hitSize |-> cfg.MissCacheSize, hitTTL |-> cfg.HitCacheTTL,
     missSize |-> cfg.HitCacheSize, missTTL |-> cfg.MissCacheTTL]

\* lines 97-104: the arguments of NewCacheResolver, TTLs in seconds
cacheParams(cfg) ==
    [hitSize |-> cfg.HitCacheSize, hitTTL |-> cfg.HitCacheTTL,
     missSize |-> cfg.MissCacheSize, missTTL |-> cfg.MissCacheTTL]

CacheKeys ==
    {[dir |-> "Resolve", target |-> h] : h \in Hostnames}
        \cup {[dir |-> "Reverse", target |-> "93.184.216.34"]}

\* the entries of a cache that have not expired at time t
Live(c, t) == SelectSeq(c, LAMBDA e : e.expiry > t)

Has(c, k) == \E i \in DOMAIN c : c[i].key = k

Entry(c, k) == c[CHOOSE i \in DOMAIN c : c[i].key = k]

Without(c, k) == SelectSeq(c, LAMBDA e : e.key # k)

\* a read makes the entry the most recently used one
Touch(c, k) == Append(Without(c, k), Entry(c, k))

\* a write into a cache of the given size; the least recently used entry
\* makes room, a cache of size zero stores nothing
Add(c, k, v, expiry, size) ==
    IF size = 0
        THEN c
        ELSE LET rest == Without(c, k)
                 room == IF Len(rest) >= size THEN Tail(rest) ELSE rest
             IN  Append(room, [key |-> k, value |-> v, expiry |-> expiry])

\* missCacheable taking every failure for a negative answer
missCacheable_AnyError(err) == err # Nil

\* the outcomes of the inner resolver that go to the miss cache
missCacheable(err) == ErrorsIs(err, ErrNoResolution)

\* one lookup of key k at time t on the cache resolver with parameters p;
\* out is what the inner resolver answers if it is asked
cacheLookup(p, hit, miss, t, k, out) ==
    LET h == Live(hit, t)
        ms == Live(miss, t)
    IN  IF p.hitSize > 0 /\ Has(h, k)
            THEN [hit |-> Touch(h, k), miss |-> ms, innerCalled |-> FALSE,
                  ret |-> [result |-> Entry(h, k).value, err |-> Nil]]
        ELSE IF p.missSize > 0 /\ Has(ms, k)
            THEN [hit |-> h, miss |-> Touch(ms, k), innerCalled |-> FALSE,
                  ret |-> [result |-> "", err |-> Nil]]
        ELSE IF out.err = Nil
            THEN [hit |-> Add(h, k, out.result, t + p.hitTTL, p.hitSize),
                  miss |-> ms, innerCalled |-> TRUE, ret |-> out]
        ELSE IF missCacheable(out.err)
            THEN [hit |-> h, miss |-> Add(ms, k, "", t + p.missTTL, p.missSize),
                  innerCalled |-> TRUE, ret |-> out]
        ELSE [hit |-> h, miss |-> ms, innerCalled |-> TRUE, ret |-> out]

\* what the resolver chain inside the cache answers: an address or a name, no
\* resolution (bare and wrapped), or a transient failure
InnerOutcomes(d) ==
    {o \in ResolverOutcomes(d) :
        /\ o.err \in {Nil, ErrNoResolution, WrappedNoResolution, ErrTimeout}
        /\ o.err = Nil => o.result # ""}

\* a cache resolver just built over the chain, both caches empty
InitCache ==
    /\ InitChainIdle
    /\ InitClose
    /\ InitProcIdle
    /\ InitPairsIdle
    /\ InitConfigIdle
    /\ ccfg \in {c \in CacheConfigs : UseCache(c)}
    /\ hitCache = <<>>
    /\ missCache = <<>>
    /\ now = 0
    /\ last = NoLookup
    /\ prev = NoLookup

\* CacheResolver.Resolve / Reverse for key k
CacheLookup(k) ==
    /\ \E out \in InnerOutcomes(k.dir) :
         LET r == cacheLookup(cacheParams(ccfg), hitCache, missCache, now, k, out)
         IN  /\ hitCache' = r.hit
             /\ missCache' = r.miss
             /\ last' = [key |-> k, time |-> now, innerCalled |-> r.innerCalled,
                         out |-> IF r.innerCalled THEN out ELSE NoRet,
                         ret |-> r.ret]
    /\ prev' = last
    /\ UNCHANGED <<chainVars, closeVars, procVars, pairVars, cfgVars, ccfg, now>>

CacheResolve == \E k \in {c \in CacheKeys : c.dir = "Resolve"} : CacheLookup(k)

CacheReverse == \E k \in {c \in CacheKeys : c.dir = "Reverse"} : CacheLookup(k)

\* a second passes
Tick ==
    /\ now < MaxTime
    /\ now' = now + 1
    /\ UNCHANGED <<chainVars, closeVars, procVars, pairVars, cfgVars, ccfg, hitCache, missCache, last, prev>>

NextCache ==
    \/ CacheResolve
    \/ CacheReverse
    \/ Tick

SpecCache == InitCache /\ [][NextCache]_vars

\* the last two lookups asked for the same key
SameKeyTwice == last # NoLookup /\ prev # NoLookup /\ last.key = prev.key

Age == last.time - prev.time

\* C14: a key answered by the inner resolver and asked again within the
\* hit-cache TTL is answered from the cache, with the same value and without
\* asking the inner resolver; asked again after the TTL has expired, the inner
\* resolver is asked again.
C14_HitCacheWithinTTL ==
    (/\ SameKeyTwice
     /\ ccfg.HitCacheSize > 0
     /\ prev.innerCalled
     /\ prev.out.err = Nil)
        => /\ Age < ccfg.HitCacheTTL =>
                 /\ ~last.innerCalled
                 /\ last.ret = [result |-> prev.out.result, err |-> Nil]
           /\ Age > ccfg.HitCacheTTL => last.innerCalled

C14_Witness ==
    /\ SameKeyTwice
    /\ ccfg.HitCacheSize > 0
    /\ ccfg.HitCacheTTL = 2
    /\ ccfg.MissCacheTTL = 1
    /\ prev.innerCalled
    /\ prev.out = [result |-> "10.0.0.7", err |-> Nil]
    /\ Age = 1
    /\ ~last.innerCalled
    /\ last.ret = [result |-> "10.0.0.7", err |-> Nil]

C14_WitnessExpired ==
    /\ SameKeyTwice
    /\ ccfg.HitCacheSize > 0
    /\ prev.innerCalled
    /\ prev.out.err = Nil
    /\ Age > ccfg.HitCacheTTL
    /\ last.innerCalled

\* C15: a NoResolution answer of the inner resolver is stored in the miss
\* cache, and the same key asked again within the miss-cache TTL is answered
\* with an empty success without asking the inner resolver.
C15_MissCacheReplay ==
    /\ (/\ last # NoLookup
        /\ ccfg.MissCacheSize > 0
        /\ last.innerCalled
        /\ ErrorsIs(last.out.err, ErrNoResolution))
           => Has(missCache, last.key)
    /\ (/\ SameKeyTwice
        /\ ccfg.MissCacheSize > 0
        /\ prev.innerCalled
        /\ ErrorsIs(prev.out.err, ErrNoResolution)
        /\ Age < ccfg.MissCacheTTL)
           => /\ ~last.innerCalled
              /\ last.ret = [result |-> "", err |-> Nil]

C15_Witness ==
    /\ SameKeyTwice
    /\ ccfg.MissCacheSize > 0
    /\ ccfg.MissCacheTTL = 2
    /\ prev.innerCalled
    /\ prev.out.err = ErrNoResolution
    /\ Age = 1
    /\ ~last.innerCalled
    /\ last.ret = [result |-> "", err |-> Nil]

OtherFailure(err) == err # Nil /\ ~ErrorsIs(err, ErrNoResolution)

\* C16: a failure of the inner resolver other than NoResolution is not
\* cached: neither cache holds the key afterwards, the error is returned as
\* it is, and the next lookup of the key asks the inner resolver again.
C16_FailuresNotCached ==
    /\ (last # NoLookup /\ last.innerCalled /\ OtherFailure(last.out.err))
           => /\ ~Has(hitCache, last.key)
              /\ ~Has(missCache, last.key)
              /\ last.ret = last.out
    /\ (SameKeyTwice /\ prev.innerCalled /\ OtherFailure(prev.out.err))
           => last.innerCalled

C16_Witness ==
    /\ SameKeyTwice
    /\ ccfg.HitCacheSize > 0
    /\ ccfg.MissCacheSize > 0
    /\ prev.innerCalled
    /\ prev.out.err = ErrTimeout
    /\ prev.ret.err = ErrTimeout
    /\ Age = 0
    /\ last.innerCalled
    /\ last.out.err = Nil

----------------------------------------------------------------------------
(* Config.Validate, then createResolverChain on the validated configuration *)

\* the LookupConfig values explored for one direction
LookupSamples(attr, resolved) ==
    [Enabled : BOOLEAN,
     Context : {"resource"},
     Attributes : {<<attr>>},
     ResolvedAttribute : {resolved}]
      \cup [Enabled : BOOLEAN, Context : {"invalid"},
            Attributes : {<<attr>>}, ResolvedAttribute : {resolved}]
      \cup [Enabled : BOOLEAN, Context : {"resource"},
            Attributes : {<<>>}, ResolvedAttribute : {resolved}]
      \cup [Enabled : BOOLEAN, Context : {"resource"},
            Attributes : {<<attr>>}, ResolvedAttribute : {""}]

\* Timeout is in milliseconds: 500 is the 0.5 s of the valid configuration,
\* -1000 the -1.0 s of the test
FullConfigs ==
    [Resolve : LookupSamples("host.name", "host.ip"),
     Reverse : LookupSamples("client.ip", "client.name"),
     HitCacheSize : {-1, 0, 1000},
     HitCacheTTL : {-1, 0, 60},
     MissCacheSize : {-1, 0, 1000},
     MissCacheTTL : {-1, 0, 5},
     MaxRetries : {-1, 0, 2},
     Timeout : {-1000, 0, 500},
     EnableSystemResolver : BOOLEAN,
     Hostfiles : {<<>>, <<"/etc/hosts">>},
     Nameservers : {<<>>, <<"8.8.8.8">>}]

ErrNoLookupEnabled == "either forward (resolve) or reverse DNS lookup must be enabled"
ErrNoAttributes == "at least one attribute must be specified for DNS resolution"
ErrNoResolvedAttribute == "resovled_attribute must be specified for DNS resolution"
ErrBadContext == "context must be either 'resource' or 'record'"
ErrTimeoutNotPositive == "timeout must be positive"
ErrMaxRetriesNegative == "max_retries must be non-negative"
ErrHitCacheSizeNegative == "hit_cache_size must be non-negative"
ErrMissCacheSizeNegative == "miss_cache_size must be non-negative"
ErrHitCacheTTLNotPositive == "hit_cache_ttl must be positive"
ErrMissCacheTTLNotPositive == "miss_cache_ttl must be positive"
ErrNoBackend == "at least one of enable_system_resolver, hostfiles, or nameservers must be specified"
ErrCacheCtor == "failed to create cache resolver"

\* fmt.Errorf("<direction> configuration: %w", err)
WrapLookupErr(direction, err) ==
    IF err = Nil THEN Nil ELSE direction \o " configuration: " \o err

\* the rules of one LookupConfig; a disabled direction is not looked at
validateLookup(lc) ==
    IF ~lc.Enabled THEN Nil
    ELSE IF Len(lc.Attributes) = 0 THEN ErrNoAttributes
    ELSE IF lc.ResolvedAttribute = "" THEN ErrNoResolvedAttribute
    ELSE IF lc.Context \notin Contexts THEN ErrBadContext
    ELSE Nil

\* timeoutRule letting a zero timeout through
timeoutRule_AllowZero(cfg) ==
    IF cfg.Timeout < 0 THEN ErrTimeoutNotPositive ELSE Nil

timeoutRule(cfg) ==
    IF cfg.Timeout <= 0 THEN ErrTimeoutNotPositive ELSE Nil

\* the checks of Config.Validate, each giving its error or nil
configChecks(cfg) ==
    << IF ~cfg.Resolve.Enabled /\ ~cfg.Reverse.Enabled THEN ErrNoLookupEnabled ELSE Nil,
       WrapLookupErr("resolve", validateLookup(cfg.Resolve)),
       WrapLookupErr("reverse", validateLookup(cfg.Reverse)),
       timeoutRule(cfg),
       IF cfg.MaxRetries < 0 THEN ErrMaxRetriesNegative ELSE Nil,
       IF cfg.HitCacheSize < 0 THEN ErrHitCacheSizeNegative ELSE Nil,
       IF cfg.MissCacheSize < 0 THEN ErrMissCacheSizeNegative ELSE Nil,
       IF cfg.HitCacheTTL <= 0 THEN ErrHitCacheTTLNotPositive ELSE Nil,
       IF cfg.MissCacheTTL <= 0 THEN ErrMissCacheTTLNotPositive ELSE Nil,
       IF ~cfg.EnableSystemResolver /\ Len(cfg.Hostfiles) = 0 /\ Len(cfg.Nameservers) = 0
           THEN ErrNoBackend ELSE Nil >>

\* Config.Validate: the first check that fails
ConfigValidate(cfg) ==
    LET checks == configChecks(cfg)
        failing == {i \in DOMAIN checks : checks[i] # Nil}
    IN  IF failing = {} THEN Nil
        ELSE checks[CHOOSE i \in failing : \A j \in failing : i <= j]

\* createResolverChain, lines 96-112, on the chain c built by lines 53-94;
\* cacheOk: whether NewCacheResolver succeeds
wrapWithCache(cfg, c, cacheOk) ==
    IF c.err # Nil
        THEN [resolvers |-> <<>>, cached |-> FALSE, err |-> c.err]
    ELSE IF UseCache(cfg)
        THEN IF cacheOk
                 THEN [resolvers |-> c.resolvers, cached |-> TRUE, err |-> Nil]
                 ELSE [resolvers |-> <<>>, cached |-> FALSE, err |-> ErrCacheCtor]
    ELSE [resolvers |-> c.resolvers, cached |-> FALSE, err |-> Nil]

InitConfig ==
    /\ InitChainIdle
    /\ InitClose
    /\ InitProcIdle
    /\ InitPairsIdle
    /\ InitCacheIdle
    /\ vcfg \in FullConfigs
    /\ validateErr = NotValidated
    /\ built = <<>>

\* the collector validates the configuration
ValidateConfig ==
    /\ validateErr = NotValidated
    /\ validateErr' = ConfigValidate(vcfg)
    /\ UNCHANGED <<chainVars, closeVars, procVars, pairVars, cacheVars, vcfg, built>>

\* newDNSLookupProcessor calls createResolverChain on a validated configuration
BuildResolver ==
    /\ validateErr = Nil
    /\ built = <<>>
    /\ \E hfOk \in BOOLEAN, nsOk \in BOOLEAN, cacheOk \in BOOLEAN :
         built' = wrapWithCache(vcfg, createResolverChain(vcfg, hfOk, nsOk), cacheOk)
    /\ UNCHANGED <<chainVars, closeVars, procVars, pairVars, cacheVars, vcfg, validateErr>>

NextConfig ==
    \/ ValidateConfig
    \/ BuildResolver

SpecConfig == InitConfig /\ [][NextConfig]_vars

\* the rules of the configuration schema
LookupRuleHolds(lc) ==
    lc.Enabled =>
        /\ lc.Context \in {"resource", "record"}
        /\ lc.Attributes # <<>>
        /\ lc.ResolvedAttribute # ""

SomeLookupEnabled(cfg) == cfg.Resolve.Enabled \/ cfg.Reverse.Enabled

NumericRulesHold(cfg) ==
    /\ cfg.MaxRetries >= 0
    /\ cfg.HitCacheSize >= 0
    /\ cfg.MissCacheSize >= 0
    /\ cfg.HitCacheTTL > 0
    /\ cfg.MissCacheTTL > 0

Backends(cfg) ==
    {b \in {"system", "hostfiles", "nameservers"} :
        \/ b = "system" /\ cfg.EnableSystemResolver
        \/ b = "hostfiles" /\ cfg.Hostfiles # <<>>
        \/ b = "nameservers" /\ cfg.Nameservers # <<>>}

AllRulesHold(cfg) ==
    /\ SomeLookupEnabled(cfg)
    /\ LookupRuleHolds(cfg.Resolve)
    /\ LookupRuleHolds(cfg.Reverse)
    /\ cfg.Timeout > 0
    /\ NumericRulesHold(cfg)
    /\ Backends(cfg) # {}

Validated == validateErr # NotValidated

\* C17: validation accepts a configuration exactly when every field rule
\* holds. A configuration whose only fault is that both directions are
\* disabled is rejected with "either forward (resolve) or reverse DNS lookup
\* must be enabled", one whose only fault is timeout <= 0 with "timeout must
\* be positive"; negative max_retries or cache sizes, non-positive cache TTLs
\* and the absence of every backend are rejected, and any single backend is
\* enough.
C17_ValidateAcceptsIffRulesHold ==
    Validated =>
        /\ validateErr = Nil <=> AllRulesHold(vcfg)
        /\ (/\ ~SomeLookupEnabled(vcfg)
            /\ vcfg.Timeout > 0
            /\ NumericRulesHold(vcfg)
            /\ Backends(vcfg) # {})
               => validateErr = ErrNoLookupEnabled
        /\ (/\ SomeLookupEnabled(vcfg)
            /\ LookupRuleHolds(vcfg.Resolve)
            /\ LookupRuleHolds(vcfg.Reverse)
            /\ vcfg.Timeout <= 0
            /\ NumericRulesHold(vcfg)
            /\ Backends(vcfg) # {})
               => validateErr = ErrTimeoutNotPositive
        /\ ~NumericRulesHold(vcfg) => validateErr # Nil
        /\ Backends(vcfg) = {} => validateErr # Nil

\* accepted with the nameservers as the only backend
C17_Witness ==
    /\ Validated
    /\ validateErr = Nil
    /\ Backends(vcfg) = {"nameservers"}
    /\ vcfg.HitCacheSize = 0

C17_WitnessTimeout ==
    /\ Validated
    /\ vcfg.Timeout = 0
    /\ validateErr = ErrTimeoutNotPositive

C17_WitnessDisabled ==
    /\ Validated
    /\ ~SomeLookupEnabled(vcfg)
    /\ validateErr = ErrNoLookupEnabled

C17_WitnessLookup ==
    /\ Validated
    /\ validateErr = "reverse configuration: context must be either 'resource' or 'record'"

Built == built # <<>>

\* C20: on a configuration that passed validation the construction of the
\* resolver never fails for want of a resolver (the chain has a member), and
\* what it returns is the cache wrapper exactly when hit_cache_size > 0 or
\* miss_cache_size > 0, the bare chain otherwise.
C20_ValidatedConfigBuilds ==
    Built =>
        /\ built.err # ErrNoResolverConfig
        /\ built.err = Nil =>
              /\ Len(built.resolvers) > 0
              /\ built.cached <=> (vcfg.HitCacheSize > 0 \/ vcfg.MissCacheSize > 0)

\* only the miss cache has a size, and the cache wrapper is returned
C20_Witness ==
    /\ Built
    /\ built.err = Nil
    /\ vcfg.HitCacheSize = 0
    /\ vcfg.MissCacheSize > 0
    /\ built.cached

C20_WitnessBare ==
    /\ Built
    /\ built.err = Nil
    /\ vcfg.HitCacheSize = 0
    /\ vcfg.MissCacheSize = 0
    /\ ~built.cached
    /\ built.resolvers = <<System>>

\* the passes of one direction's method that have run so far
PassesOf(fn) == SelectSeq(passLog, LAMBDA e : e.fn = fn)

AllPairsRun == pairsRun = Len(processPairs)

\* what one direction has had once every pair has run: a single pass, on the
\* attribute map of its own context, when it is enabled, none when it is not
RanAsConfigured(lc, fn) ==
    IF lc.Enabled
        THEN /\ Len(PassesOf(fn)) = 1
             /\ PassesOf(fn)[1].ctx = lc.Context
        ELSE PassesOf(fn) = <<>>

\* C21: for every combination of enabled directions and contexts the process
\* pairs are one combined pair when both directions are enabled with the same
\* context, otherwise one pair per enabled direction bound to that direction's
\* context; a disabled direction never runs, no direction runs twice on a map
\* or on the map of another context, and once every pair has run each enabled
\* direction has run exactly once on the map of its configured context.
C21_PairsRunEnabledDirectionsOnce ==
    /\ IF BothSameContext
           THEN processPairs =
                    <<[ContextID |-> lcfg.Resolve.Context, ProcessFn |-> "processDNSLookup"]>>
           ELSE processPairs =
                    (IF lcfg.Resolve.Enabled
                         THEN <<[ContextID |-> lcfg.Resolve.Context,
                                 ProcessFn |-> "processResolveLookup"]>>
                         ELSE <<>>)
                    \o (IF lcfg.Reverse.Enabled
                         THEN <<[ContextID |-> lcfg.Reverse.Context,
                                 ProcessFn |-> "processReverseLookup"]>>
                         ELSE <<>>)
    /\ \A i \in DOMAIN passLog :
          /\ passLog[i].fn = "processResolveLookup" =>
                lcfg.Resolve.Enabled /\ passLog[i].ctx = lcfg.Resolve.Context
          /\ passLog[i].fn = "processReverseLookup" =>
                lcfg.Reverse.Enabled /\ passLog[i].ctx = lcfg.Reverse.Context
    /\ Len(PassesOf("processResolveLookup")) <= 1
    /\ Len(PassesOf("processReverseLookup")) <= 1
    /\ AllPairsRun =>
          /\ RanAsConfigured(lcfg.Resolve, "processResolveLookup")
          /\ RanAsConfigured(lcfg.Reverse, "processReverseLookup")

\* both directions enabled on different contexts: two pairs, each direction
\* run once on its own context's map
C21_Witness ==
    /\ lcfg.Resolve.Enabled
    /\ lcfg.Reverse.Enabled
    /\ lcfg.Resolve.Context = "record"
    /\ lcfg.Reverse.Context = "resource"
    /\ Len(processPairs) = 2
    /\ AllPairsRun
    /\ Len(passLog) = 2
    /\ passLog[1] = [pair |-> 1, ctx |-> "record",
                     fn |-> "processResolveLookup", err |-> Nil]
    /\ passLog[2].pair = 2
    /\ passLog[2].ctx = "resource"
    /\ passLog[2].fn = "processReverseLookup"

\* only the reverse direction enabled: its pair alone, run once
C21_WitnessReverseOnly ==
    /\ ~lcfg.Resolve.Enabled
    /\ lcfg.Reverse.Enabled
    /\ Len(processPairs) = 1
    /\ AllPairsRun
    /\ Len(passLog) = 1
    /\ passLog[1].fn = "processReverseLookup"
    /\ passLog[1].ctx = lcfg.Reverse.Context

\* both enabled on one context: the combined pair, both directions run once
C21_WitnessCombined ==
    /\ BothSameContext
    /\ AllPairsRun
    /\ Len(PassesOf("processResolveLookup")) = 1
    /\ Len(PassesOf("processReverseLookup")) = 1

====
